---- MODULE Spec2Model ----
(***************************************************************************)
(* Checkpoint / rollback / branch state machine of the agent mind-map      *)
(* server: the GitStateManager (git-state-manager.js), the WebSocket       *)
(* control handlers and the reasoning-trace watcher (server.js).           *)
(*                                                                         *)
(* The specifications share the variables:                                 *)
(*   SpecGit   - GitStateManager driven sequentially, as its tests do      *)
(*   Spec      - the server: watcher callbacks and socket handlers, every  *)
(*               await of the code being a point where handlers interleave *)
(*   FairSpec  - Spec, with every started I/O operation terminating        *)
(*   SpecPause - the watcher with the pause and resume handlers            *)
(*   SpecIngest - either log watcher (the server's, or cli/server.js's)    *)
(*               alone with the log: start-up content, malformed reads,    *)
(*               engine exit codes, replacement of the log by a rename     *)
(*   FairSpecIngest - SpecIngest, every queued callback of cli/server.js   *)
(*               running in the end                                        *)
(*   SpecResume - the resume endpoint on a table of node executions        *)
(*   SpecClient - the dashboard's WebSocketClient receiving messages       *)
(***************************************************************************)
EXTENDS Integers, Sequences, FiniteSets, TLC

\* ------------------------------------------------------------------ bounds
MaxCommits == 2          \* commits made in one run of SpecGit
MaxGitOps == 2           \* rollbackToCommit / createTimeline calls in SpecGit
MaxSteps == 2            \* step numbers that can appear in reasoning_trace.json
MaxWatch == 2            \* fs.watch callbacks in flight at one time
MaxReq == 2              \* control messages delivered in one run
MaxRows == 3             \* rows of node_executions when a resume is requested
MaxProcessedIds == 2     \* size limit of processedEventIds (1000 in the client)
MaxIncoming == 5         \* agent-event messages a client receives in one run

Files == {"test.txt"}
Absent == "(absent)"     \* a path that does not exist in a tree
Contents == {Absent, "Initial content", "Modified content"}

\* ------------------------------------------------------------------ state
VARIABLES
    git,        \* the repository at WORKSPACE_PATH and its working tree
    now,        \* the clock read by Date.now()
    gitOps,     \* number of rollbackToCommit / createTimeline calls made
    snap,       \* snap[c]: working tree content right after commit c was made
    last,       \* the last GitStateManager call made by SpecGit and its outcome
    status,             \* agentState.status
    pauseRequested,     \* agentState.pauseRequested
    processedSteps,     \* the Set of step numbers already handled
    log,                \* reasoning_trace.json: the step numbers, in file order
    watch,              \* the fs.watch callbacks in flight
    req,                \* the control messages delivered and their handlers
    processed_messages, \* message_id column of table processed_messages
    sessions,           \* rows of table sessions inserted by branch requests
    stepCreated,        \* step numbers of the STEP_CREATED events, in emission order
    lastBroadcast,      \* status of the last STATUS_CHANGED broadcast
    rollbackCalls,      \* rollbackCalls[e]: calls of rollbackToCommit made for eventId e
    commitOf,           \* commitOf[s]: commit returned by createStepCommit for step s
    node_executions,    \* rows of table node_executions, in id order
    commitErrors,       \* steps whose commit failure was reported by system.error, in emission order
    opPaused,           \* a pause request was received and no resume request since
    heldSteps,          \* steps appended to the log since that pause request
    releasedSteps,      \* steps appended during a pause that has been resumed
    fsWatcher,          \* what the fs.watch handle on the log is attached to
    cli,                \* the watcher of cli/server.js: its flags, pass and events
    ingest,             \* which server runs, and a record of what its inputs were
    stateUpdates,       \* columns session_id and state_update_json of node_executions, in id order
    resumeResponse,     \* the response of the last POST /api/sessions/:sessionId/resume
    wsClient            \* the dashboard's WebSocketClient and what it has dispatched

apiVars == <<stateUpdates, resumeResponse, wsClient>>
ingestVars == <<fsWatcher, cli, ingest, apiVars>>
gitVars == <<git, now, gitOps, snap, last>>
serverVars == <<status, pauseRequested, processedSteps, log, watch, req,
                processed_messages, sessions, stepCreated, lastBroadcast,
                rollbackCalls, commitOf,
                   node_executions, commitErrors, ingestVars, opPaused, heldSteps, releasedSteps>>
vars == <<git, now, gitOps, snap, last, status, pauseRequested, processedSteps, log, watch, req, processed_messages, sessions, stepCreated,
          lastBroadcast, rollbackCalls, commitOf,
                   node_executions, commitErrors, ingestVars, opPaused, heldSteps, releasedSteps>>

\* ------------------------------------------------------- the git repository
EmptyTree == [f \in Files |-> Absent]
MainBranch == <<"main", 0>>
NoCommit == 0

\* git init: no commit yet, HEAD is an unborn main branch, empty working tree
InitRepo ==
    [commits |-> <<>>, cur |-> MainBranch,
     branches |-> [b \in {MainBranch} |-> NoCommit],
     wt |-> EmptyTree, stash |-> <<>>]

HEAD(g) == g.branches[g.cur]
IsCommit(g, sha) == sha \in 1..Len(g.commits)
Tree(g, c) == IF IsCommit(g, c) THEN g.commits[c].tree ELSE EmptyTree
Tracked(g, f) == Tree(g, HEAD(g))[f] # Absent

\* simple-git StatusSummary.isClean(): no path is reported by git status,
\* untracked paths included
isClean(g) == g.wt = Tree(g, HEAD(g))

\* paths git stash saves: modified or deleted tracked paths
TrackedChanges(g) == {f \in Files : Tracked(g, f) /\ g.wt[f] # Tree(g, HEAD(g))[f]}

\* git stash push -m <label>: saves the changes of tracked paths and restores
\* them to HEAD; untracked paths are left in place and are not saved; with
\* nothing to save no entry is made; fails before the first commit
stashPush(g, label) ==
    IF HEAD(g) = NoCommit THEN [ok |-> FALSE, git |-> g]
    ELSE IF TrackedChanges(g) = {} THEN [ok |-> TRUE, git |-> g]
    ELSE [ok |-> TRUE,
          git |-> [g EXCEPT
              !.stash = <<[label |-> label, base |-> HEAD(g),
                           tree |-> [f \in Files |->
                                       IF Tracked(g, f) THEN g.wt[f] ELSE Absent]]>> \o @,
              !.wt = [f \in Files |->
                        IF Tracked(g, f) THEN Tree(g, HEAD(g))[f] ELSE g.wt[f]]]]

\* git branch <name> <at>: fails when the name exists or <at> is no commit
gitBranch(g, name, at) ==
    IF name \in DOMAIN g.branches \/ ~IsCommit(g, at) THEN [ok |-> FALSE, git |-> g]
    ELSE [ok |-> TRUE,
          git |-> [g EXCEPT !.branches =
                      [b \in DOMAIN g.branches \cup {name} |->
                          IF b = name THEN at ELSE g.branches[b]]]]

\* git reset <sha> without --hard: the working tree is left as it is
gitResetMixed(g, sha) ==
    IF ~IsCommit(g, sha) THEN [ok |-> FALSE, git |-> g]
    ELSE [ok |-> TRUE, git |-> [g EXCEPT !.branches[g.cur] = sha]]

\* git reset --hard <sha>: moves the current branch; every path of the target
\* is written (an untracked file in the way is overwritten), tracked paths
\* absent from the target are removed, other untracked paths stay
gitResetHard(g, sha) ==
    IF ~IsCommit(g, sha) THEN [ok |-> FALSE, git |-> g]
    ELSE [ok |-> TRUE,
          git |-> [g EXCEPT
              !.branches[g.cur] = sha,
              !.wt = [f \in Files |->
                        IF Tree(g, sha)[f] # Absent THEN Tree(g, sha)[f]
                        ELSE IF Tracked(g, f) THEN Absent
                        ELSE g.wt[f]]]]

\* GitStateManager.createStepCommit: git add . ; git commit --allow-empty
\* (the commit snapshots the whole working tree); returns the new commit
createStepCommit(g) ==
    LET commitHash == Len(g.commits) + 1
    IN [commit |-> commitHash,
        git |-> [g EXCEPT
            !.commits = Append(@, [tree |-> g.wt, parent |-> HEAD(g)]),
            !.branches[g.cur] = commitHash]]

\* GitStateManager.rollbackToCommit(sha), Date.now() = t; any failing git
\* command throws and leaves what the earlier commands did
rollbackToCommit(g, sha, t) ==
    LET s1 == IF isClean(g) THEN [ok |-> TRUE, git |-> g] ELSE stashPush(g, sha)
        currentHead == HEAD(s1.git)
        backupBranchName == <<"backup", t>>
        s2 == gitBranch(s1.git, backupBranchName, currentHead)
        s3 == gitResetHard(s2.git, sha)
    IN  IF ~s1.ok \/ currentHead = NoCommit
            THEN [ok |-> FALSE, git |-> s1.git, backupBranch |-> backupBranchName]
        ELSE IF ~s2.ok
            THEN [ok |-> FALSE, git |-> s1.git, backupBranch |-> backupBranchName]
        ELSE IF ~s3.ok
            THEN [ok |-> FALSE, git |-> s2.git, backupBranch |-> backupBranchName]
        ELSE [ok |-> TRUE, git |-> s3.git, backupBranch |-> backupBranchName]

\* number of timeline branches made so far: stands for the random suffix
\* uuidv4().slice(0, 8), a fresh value on every call
Timelines(g) == {b \in DOMAIN g.branches : b[1] = "timeline"}

\* git checkout -b <name>: the new branch starts at HEAD, whatever fromSha is
createTimelineAtHead(g, fromSha) ==
    LET branchName == <<"timeline", Cardinality(Timelines(g)) + 1>>
    IN  IF ~IsCommit(g, fromSha) THEN [ok |-> FALSE, git |-> g, branchName |-> branchName]
        ELSE [ok |-> TRUE, branchName |-> branchName,
              git |-> [g EXCEPT
                  !.cur = branchName,
                  !.branches = [b \in DOMAIN g.branches \cup {branchName} |->
                                  IF b = branchName THEN HEAD(g) ELSE g.branches[b]]]]

\* GitStateManager.createTimeline: git checkout -b <name> <fromSha>; git
\* refuses when local changes would be overwritten by the switch
createTimeline(g, fromSha) ==
    LET branchName == <<"timeline", Cardinality(Timelines(g)) + 1>>
        differs(f) == Tree(g, HEAD(g))[f] # Tree(g, fromSha)[f]
    IN  IF ~IsCommit(g, fromSha) \/ (\E f \in Files : differs(f) /\ g.wt[f] # Tree(g, HEAD(g))[f])
            THEN [ok |-> FALSE, git |-> g, branchName |-> branchName]
        ELSE [ok |-> TRUE, branchName |-> branchName,
              git |-> [g EXCEPT
                  !.cur = branchName,
                  !.branches = [b \in DOMAIN g.branches \cup {branchName} |->
                                  IF b = branchName THEN fromSha ELSE g.branches[b]],
                  !.wt = [f \in Files |->
                            IF differs(f) THEN Tree(g, fromSha)[f] ELSE g.wt[f]]]]

\* commits reachable from commit c by parent links, c included
RECURSIVE Ancestors(_, _)
Ancestors(g, c) ==
    IF ~IsCommit(g, c) THEN {} ELSE {c} \cup Ancestors(g, g.commits[c].parent)

\* git log <branch>: the commit history of a branch
History(g, b) == IF b \in DOMAIN g.branches THEN Ancestors(g, g.branches[b]) ELSE {}

\* ------------------------------------------------------- the server state
Steps == 1..MaxSteps
RollbackEventIds == {1, 2}   \* event_id values of state.rollback_requested messages
BranchEventIds == {3}        \* event_id values of branch.create_requested messages
EventIds == RollbackEventIds \cup BranchEventIds
Shas == {1}                  \* commitHash / fromCommitHash a client sends: the first
                             \* commit, which is no commit until a step was committed
KindOf(e) == IF e \in RollbackEventIds THEN "rollback" ELSE "branch"

\* ---- WebSocketProtocol (websocket-protocol.js)
Missing == 0                 \* a field the message does not carry (undefined)
FreshId == 99                \* a uuidv4() value: equal to no id a client has sent

\* the envelopes a client can send for request e: every field is there or
\* not; isObject = FALSE is a message that is null
Envelopes(e) ==
    [isObject : BOOLEAN,
     event_id : {e, Missing},
     event_type : {KindOf(e), ""},
     timestamp : {"t", ""},
     payload : {"object", "string", "null", "undefined"}]   \* typeof, null apart

\* WebSocketProtocol.validate: TRUE where the code returns true, FALSE where
\* it throws
validate(message) ==
    /\ message.isObject
    /\ message.event_id # Missing
    /\ message.event_type # ""
    /\ message.timestamp # ""
    /\ ~(message.payload \in {"null", "undefined"} \/ message.payload # "object")

\* message.event_id as the handlers read it
EventIdOf(message) == IF message.isObject THEN message.event_id ELSE Missing

\* WebSocketProtocol.createMessage(eventType, payload, correlationId)
createMessage(eventType, correlationId) ==
    [event_type |-> eventType,
     correlation_id |-> IF correlationId # Missing THEN correlationId ELSE FreshId,
     code |-> ""]

\* an error event that does not name the request
createErrorUncorrelated(originalMessage, code) ==
    [event_type |-> "system.error", correlation_id |-> FreshId, code |-> code]

\* WebSocketProtocol.createError(originalMessage, code, message)
createError(originalMessage, code) ==
    [event_type |-> "system.error",
     correlation_id |-> IF originalMessage.isObject
                        THEN originalMessage.event_id ELSE FreshId,
     code |-> code]

FreeWatch == [pc |-> "free", steps |-> <<>>, idx |-> 0]
\* ---- session ids
NoSession == <<"null", 0>>                 \* parentSessionId: null
TestSessionId == <<"test-session-id", 0>>  \* an id that no row of sessions has
NewSessionId(rows) == <<"session", Cardinality(rows) + 1>>   \* crypto.randomUUID()

\* payload.parentSessionId of the messages a client sends as request e
ParentSessionIds(e) ==
    IF KindOf(e) = "branch" THEN {NoSession, TestSessionId} ELSE {NoSession}

FreeReq == [pc |-> "free", eid |-> Missing, valid |-> FALSE, sha |-> NoCommit,
            outcome |-> "none", events |-> <<>>,
            parentSessionId |-> NoSession, branchName |-> MainBranch]

\* cli/server.js after startup: processedSteps = new Set(), isProcessing =
\* false, no pass, no fs.watch callback queued and no timer set, nothing
\* emitted; addFailed records that a runLangGraph('add') was rejected,
\* failed the steps whose add was rejected, and leftover the steps that
\* came after such a step in its batch
CliIdle ==
    [isProcessing |-> FALSE, processedSteps |-> {}, pc |-> "idle",
     steps |-> <<>>, idx |-> 0, pending |-> 0, timers |-> 0,
     newStep |-> <<>>, status |-> "none", addFailed |-> FALSE,
     failed |-> {}, leftover |-> {}]

\* the record of a run: the server that was started (git: the server with
\* the GitStateManager, cli: cli/server.js), the steps the log held when it
\* started, the exit code of the engine run of each callback slot, the
\* malformed reads ignored (and whether a later read found new steps), and
\* whether the log was replaced by a rename
IngestOf(server, startLog) ==
    [server |-> server, startLog |-> startLog,
     exit |-> [i \in 1..MaxWatch |-> 0],
     badRead |-> FALSE, retried |-> FALSE, replaced |-> FALSE]

\* an object without keys: {}
EmptyObject == [k \in {} |-> 0]

\* event_id values of the agent-event messages a client receives
ClientEventIds == 1..(MaxProcessedIds + 2)

\* no resume request was answered yet
NoResponse == [code |-> 0, session_id |-> NoSession, checkpoint_node_id |-> 0,
               state |-> EmptyObject]

\* new WebSocketClient(): processedEventIds is an empty Set (kept here in
\* insertion order, the order in which a Set is iterated); dispatched[id]
\* counts the runs of the handlers for the messages with event_id id, and
\* received the messages handed to handleIncomingMessage
NewClient == [processedEventIds |-> <<>>,
              dispatched |-> [id \in ClientEventIds |-> 0],
              received |-> 0]

NoCall == [op |-> "none", sha |-> NoCommit, ok |-> FALSE, preHead |-> NoCommit,
           preWt |-> EmptyTree, preStash |-> 0, backupBranch |-> MainBranch]

\* The state after the server has started: gitStateManager.initialize() has
\* run on an empty workspace, agentState is as declared, reasoning_trace.json
\* holds no step and processedSteps was seeded from it; the tables of
\* schema_update.sql exist and are empty. Database statements are taken to
\* fail only where the handlers tell failures apart (the key constraint of
\* processed_messages, the INSERT INTO sessions).
Init ==
    /\ git = InitRepo
    /\ now = 0
    /\ gitOps = 0
    /\ snap = <<>>
    /\ last = NoCall
    /\ status = "IDLE"
    /\ pauseRequested = FALSE
    /\ processedSteps = {}
    /\ log = <<>>
    /\ watch = [i \in 1..MaxWatch |-> FreeWatch]
    /\ req = [i \in 1..MaxReq |-> FreeReq]
    /\ processed_messages = {}
    /\ sessions = {}
    /\ stepCreated = <<>>
    /\ lastBroadcast = "IDLE"
    /\ rollbackCalls = [e \in EventIds |-> 0]
    /\ commitOf = [s \in Steps |-> NoCommit]
    /\ node_executions = <<>>
    /\ commitErrors = <<>>
    /\ opPaused = FALSE
    /\ heldSteps = {}
    /\ releasedSteps = {}
    /\ fsWatcher = "watching"
    /\ cli = CliIdle
    /\ ingest = IngestOf("git", <<>>)
    /\ stateUpdates = <<>>
    /\ resumeResponse = NoResponse
    /\ wsClient = NewClient

\* A millisecond passes. Date.now() is read only to name a backup branch, so
\* the clock is advanced only past a value that names one: two values that
\* name no branch yet cannot be told apart.
Tick ==
    /\ <<"backup", now>> \in DOMAIN git.branches
    /\ now' = now + 1
    /\ UNCHANGED <<git, gitOps, snap, last, serverVars>>

\* --------------------------------------------- SpecGit: the manager alone
\* fs.writeFileSync / unlink in the workspace between two calls
WriteFile(f, c) ==
    /\ git.wt[f] # c
    /\ git' = [git EXCEPT !.wt[f] = c]
    /\ last' = [NoCall EXCEPT !.op = "write"]
    /\ UNCHANGED <<now, gitOps, snap, serverVars>>

CallCreateStepCommit ==
    /\ Len(git.commits) < MaxCommits
    /\ LET r == createStepCommit(git)
       IN /\ git' = r.git
          /\ snap' = Append(snap, r.git.wt)
          /\ last' = [op |-> "commit", sha |-> r.commit, ok |-> TRUE,
                      preHead |-> HEAD(git), preWt |-> git.wt,
                      preStash |-> Len(git.stash), backupBranch |-> MainBranch]
    /\ UNCHANGED <<now, gitOps, serverVars>>

CallRollbackToCommit(sha) ==
    /\ gitOps < MaxGitOps
    /\ gitOps' = gitOps + 1
    /\ LET r == rollbackToCommit(git, sha, now)
       IN /\ git' = r.git
          /\ last' = [op |-> "rollback", sha |-> sha, ok |-> r.ok,
                      preHead |-> HEAD(git), preWt |-> git.wt,
                      preStash |-> Len(git.stash), backupBranch |-> r.backupBranch]
    /\ UNCHANGED <<now, snap, serverVars>>

CallCreateTimeline(sha) ==
    /\ gitOps < MaxGitOps
    /\ gitOps' = gitOps + 1
    /\ LET r == createTimeline(git, sha)
       IN /\ git' = r.git
          /\ last' = [op |-> "timeline", sha |-> sha, ok |-> r.ok,
                      preHead |-> HEAD(git), preWt |-> git.wt,
                      preStash |-> Len(git.stash), backupBranch |-> r.branchName]
    /\ UNCHANGED <<now, snap, serverVars>>

NextGit ==
    \/ \E f \in Files, c \in Contents : WriteFile(f, c)
    \/ Tick
    \/ CallCreateStepCommit
    \/ \E sha \in 1..MaxCommits : CallRollbackToCommit(sha)
    \/ \E sha \in 1..MaxCommits : CallCreateTimeline(sha)

SpecGit == Init /\ [][NextGit]_vars


\* ------------------------------------------- Spec: the server (server.js)
\* index of the first step at or after position from that is not in seen,
\* 0 when there is none: the test of the for loop over steps
NextIdx(steps, from, seen) ==
    LET c == {k \in from..Len(steps) : steps[k] \notin seen}
    IN  IF c = {} THEN 0 ELSE CHOOSE k \in c : \A j \in c : k <= j

\* the step is not marked before the await
MarkSeenLate(seen, s) == seen

\* processedSteps.add(step.step), run in the same turn as the has() test
\* and before createStepCommit is awaited
MarkSeen(seen, s) == seen \cup {s}

\* the for loop of the close handler from position from up to its next await
\* (createStepCommit of the next unseen step) or to its end
LoopFrom(i, steps, from) ==
    LET k == NextIdx(steps, from, processedSteps)
    IN  IF k = 0
        THEN /\ watch' = [watch EXCEPT ![i] = FreeWatch]
             /\ UNCHANGED processedSteps
        ELSE /\ watch' = [watch EXCEPT ![i] = [pc |-> "commit", steps |-> steps, idx |-> k]]
             /\ processedSteps' = MarkSeen(processedSteps, steps[k])

\* STEP_CREATED emitted outside the try block
EmitsStepCreatedAlways(committed) == TRUE

\* the try block around createStepCommit emits STEP_CREATED after the await
\* returned, and system.error (GIT_COMMIT_FAILED) from the catch block
EmitsStepCreated(committed) == committed

\* a message_id column without the PRIMARY KEY constraint
InsertNeverFails(table, e) == FALSE

\* processed_messages.message_id is a PRIMARY KEY: the INSERT of an id that
\* is already in the table fails
InsertFails(table, e) == e \in table

\* a rollback handler that empties processedSteps after the reset
SeenClearedByRollback(seen) == {}

\* processedSteps after a successful rollbackToCommit: the handler only
\* holds a comment about resetting it and has no statement that touches it
SeenAfterRollback(seen) == seen

\* a catch block that leaves agentState.status as it is
StatusKeptOnRollbackError(st) == st

\* the catch block of the rollback handler: agentState.status = 'IDLE'
StatusOnRollbackError(st) == "IDLE"

\* a catch block that reports nothing
EmitsErrorNever(committed) == FALSE

\* catch (gitError): io.emit(createError(null, 'GIT_COMMIT_FAILED', ...))
EmitsError(committed) == ~committed

\* the rows of node_executions once the reasoning engine has run on steps:
\* it has recorded one row, without commit_sha and step_id, for every step
\* that had none
EngineRows(rows, steps) ==
    LET recorded(s) == \E k \in 1..Len(rows) : rows[k].step = s
        fresh == SelectSeq(steps, LAMBDA s : ~recorded(s))
    IN  rows \o [k \in 1..Len(fresh) |->
                    [step |-> fresh[k], commit_sha |-> NoCommit, step_id |-> Missing]]

\* UPDATE node_executions SET commit_sha = ?, step_id = ?
\* WHERE id = (SELECT MAX(id) FROM node_executions)
UpdateLastRow(rows, commitHash, stepId) ==
    IF rows = <<>> THEN rows
    ELSE [rows EXCEPT ![Len(rows)].commit_sha = commitHash,
                      ![Len(rows)].step_id = stepId]

SlotFree(f, i) == f[i].pc = "free" /\ \A j \in 1..(i - 1) : f[j].pc # "free"

\* the agent (or the scraper) appends step s to reasoning_trace.json (step
\* numbers are assigned in increasing order by the source); fs.watch queues
\* a 'change' callback
AppendToLog(i, s) ==
    /\ SlotFree(watch, i)
    /\ s \in Steps /\ s = Len(log) + 1
    /\ log' = Append(log, s)
    /\ watch' = [watch EXCEPT ![i].pc = "change"]
    /\ UNCHANGED <<gitVars, status, pauseRequested, processedSteps, req,
                   processed_messages, sessions, stepCreated, lastBroadcast,
                   rollbackCalls, commitOf,
                   node_executions, commitErrors, ingestVars, opPaused>>

AppendStep(i, s) ==
    /\ AppendToLog(i, s)
    /\ UNCHANGED <<heldSteps, releasedSteps>>

\* fs.watch reports 'change' again although the content is the same
Redeliver(i) ==
    /\ SlotFree(watch, i)
    /\ log # <<>>
    /\ watch' = [watch EXCEPT ![i].pc = "change"]
    /\ UNCHANGED <<gitVars, status, pauseRequested, processedSteps, log, req,
                   processed_messages, sessions, stepCreated, lastBroadcast,
                   rollbackCalls, commitOf,
                   node_executions, commitErrors, ingestVars, opPaused, heldSteps, releasedSteps>>

\* fs.watch callback: ignored while PAUSED or ROLLING_BACK, else fs.readFile
WatchChange(i) ==
    /\ watch[i].pc = "change"
    /\ watch' = [watch EXCEPT ![i] =
                    IF status \in {"PAUSED", "ROLLING_BACK"} THEN FreeWatch
                    ELSE [FreeWatch EXCEPT !.pc = "read"]]
    /\ UNCHANGED <<gitVars, status, pauseRequested, processedSteps, log, req,
                   processed_messages, sessions, stepCreated, lastBroadcast,
                   rollbackCalls, commitOf,
                   node_executions, commitErrors, ingestVars, opPaused, heldSteps, releasedSteps>>

\* fs.readFile callback; readable = FALSE is a read error or malformed JSON.
\* With new steps: status RUNNING is set and broadcast, the engine is spawned.
ReadFileCallback(i, readable) ==
    /\ watch[i].pc = "read"
    /\ LET newSteps == {k \in 1..Len(log) : log[k] \notin processedSteps}
       IN  IF readable /\ newSteps # {}
           THEN /\ status' = "RUNNING"
                /\ lastBroadcast' = "RUNNING"
                /\ watch' = [watch EXCEPT ![i] = [pc |-> "engine", steps |-> log, idx |-> 0]]
           ELSE /\ watch' = [watch EXCEPT ![i] = FreeWatch]
                /\ UNCHANGED <<status, lastBroadcast>>
    /\ UNCHANGED <<gitVars, pauseRequested, processedSteps, log, req,
                   processed_messages, sessions, stepCreated,
                   rollbackCalls, commitOf,
                   node_executions, commitErrors, fsWatcher, cli, apiVars, opPaused, heldSteps, releasedSteps>>

ReadFileDone(i, readable) ==
    /\ ReadFileCallback(i, readable)
    /\ UNCHANGED ingest

\* pythonProcess 'close': status IDLE is set and broadcast (whatever the exit
\* code), then the loop over steps runs up to its first createStepCommit
CloseHandler(i) ==
    /\ watch[i].pc = "engine"
    /\ status' = "IDLE"
    /\ lastBroadcast' = "IDLE"
    /\ LoopFrom(i, watch[i].steps, 1)
    /\ node_executions' = EngineRows(node_executions, watch[i].steps)
    /\ UNCHANGED <<gitVars, pauseRequested, log, req,
                   processed_messages, sessions, stepCreated,
                   rollbackCalls, commitOf,
                   commitErrors, fsWatcher, cli, apiVars, opPaused, heldSteps, releasedSteps>>

\* the engine exits; its exit code, which the handler only logs, is not kept
EngineClose(i) ==
    /\ CloseHandler(i)
    /\ UNCHANGED ingest

\* createStepCommit settles for the step at idx: on success the commit
\* exists, the UPDATE of node_executions is issued (its effect is taken to
\* land at once) and STEP_CREATED is emitted, on failure system.error; then
\* the loop goes on to the next unseen step
CommitDone(i, committed) ==
    /\ watch[i].pc = "commit"
    /\ LET s == watch[i].steps[watch[i].idx]
           r == createStepCommit(git)
       IN  /\ git' = IF committed THEN r.git ELSE git
           /\ commitOf' = IF committed THEN [commitOf EXCEPT ![s] = r.commit] ELSE commitOf
           /\ node_executions' = IF committed
                                 THEN UpdateLastRow(node_executions, r.commit, s)
                                 ELSE node_executions
           /\ stepCreated' = IF EmitsStepCreated(committed)
                             THEN Append(stepCreated, s) ELSE stepCreated
           /\ commitErrors' = IF EmitsError(committed)
                              THEN Append(commitErrors, s) ELSE commitErrors
    /\ LoopFrom(i, watch[i].steps, watch[i].idx + 1)
    /\ UNCHANGED <<now, gitOps, snap, last, status, pauseRequested, log, req,
                   processed_messages, sessions, lastBroadcast,
                   rollbackCalls, ingestVars, opPaused, heldSteps, releasedSteps>>

Finish(i, outcome) == [req EXCEPT ![i].pc = "done", ![i].outcome = outcome]

\* the message as the handler of invocation i holds it (it passed validate)
MessageOf(i) ==
    [isObject |-> TRUE, event_id |-> req[i].eid, event_type |-> KindOf(req[i].eid),
     timestamp |-> "t", payload |-> "object"]

\* code of the system.error the catch block of the handler emits
FailedCode(e) == IF KindOf(e) = "rollback" THEN "ROLLBACK_FAILED" ELSE "BRANCH_FAILED"

\* the handler of invocation i ends after socket.emit(event)
FinishWith(i, outcome, event) ==
    [req EXCEPT ![i].pc = "done", ![i].outcome = outcome,
                ![i].events = Append(@, event)]

\* a duplicate delivery carries the same message
SameMessage(e, sha, parentSessionId) ==
    \A j \in 1..MaxReq :
        (req[j].pc # "free" /\ req[j].valid /\ req[j].eid = e) =>
            (req[j].sha = sha /\ req[j].parentSessionId = parentSessionId)

\* socket.on(ROLLBACK_REQUESTED / BRANCH_REQUESTED) up to its first await, for
\* the message a client sends as request e: WebSocketProtocol.validate throws
\* on a malformed envelope (the catch block emits system.error, the rollback
\* handler also sets status IDLE); else checkAndRecordMessage issues its SELECT
Deliver(i, e, message, sha, parentSessionId) ==
    /\ SlotFree(req, i)
    /\ validate(message) => SameMessage(e, sha, parentSessionId)
    /\ e = 2 => \E j \in 1..MaxReq : req[j].eid = 1
    /\ IF validate(message)
       THEN /\ req' = [req EXCEPT ![i] = [pc |-> "select", eid |-> e, valid |-> TRUE,
                                           sha |-> sha, outcome |-> "none",
                                           events |-> <<>>,
                                           parentSessionId |-> parentSessionId,
                                           branchName |-> MainBranch]]
            /\ UNCHANGED status
       ELSE /\ req' = [req EXCEPT ![i] =
                          [FreeReq EXCEPT !.pc = "done", !.outcome = "invalid",
                                          !.eid = EventIdOf(message),
                                          !.events = <<createError(message, FailedCode(e))>>]]
            /\ status' = IF KindOf(e) = "rollback" THEN StatusOnRollbackError(status) ELSE status
    /\ UNCHANGED <<gitVars, pauseRequested, processedSteps, log, watch,
                   processed_messages, sessions, stepCreated, lastBroadcast,
                   rollbackCalls, commitOf,
                   node_executions, commitErrors, ingestVars, opPaused, heldSteps, releasedSteps>>

\* checkAndRecordMessage, db.get callback: a row means already processed
\* (resolve(false), the handler returns); else the INSERT is issued
SelectDone(i) ==
    /\ req[i].pc = "select"
    /\ req' = IF req[i].eid \in processed_messages
              THEN Finish(i, "duplicate")
              ELSE [req EXCEPT ![i].pc = "insert"]
    /\ UNCHANGED <<gitVars, status, pauseRequested, processedSteps, log, watch,
                   processed_messages, sessions, stepCreated, lastBroadcast,
                   rollbackCalls, commitOf,
                   node_executions, commitErrors, ingestVars, opPaused, heldSteps, releasedSteps>>

\* checkAndRecordMessage, db.run callback. insertErr rejects and the handler's
\* catch block runs. Else the id is recorded and the handler goes on to its
\* next await: the rollback handler sets ROLLING_BACK and pauseRequested,
\* broadcasts and calls rollbackToCommit; the branch handler calls
\* createTimeline.
InsertDone(i) ==
    /\ req[i].pc = "insert"
    /\ LET e == req[i].eid
       IN  IF InsertFails(processed_messages, e)
           THEN /\ req' = FinishWith(i, "insert_failed", createError(MessageOf(i), FailedCode(e)))
                /\ status' = IF KindOf(e) = "rollback"
                             THEN StatusOnRollbackError(status) ELSE status
                /\ UNCHANGED <<processed_messages, pauseRequested, lastBroadcast, rollbackCalls>>
           ELSE /\ processed_messages' = processed_messages \cup {e}
                /\ IF KindOf(e) = "rollback"
                   THEN /\ status' = "ROLLING_BACK"
                        /\ pauseRequested' = TRUE
                        /\ lastBroadcast' = "ROLLING_BACK"
                        /\ rollbackCalls' = [rollbackCalls EXCEPT ![e] = @ + 1]
                        /\ req' = [req EXCEPT ![i].pc = "rollback"]
                   ELSE /\ req' = [req EXCEPT ![i].pc = "timeline"]
                        /\ UNCHANGED <<status, pauseRequested, lastBroadcast, rollbackCalls>>
    /\ UNCHANGED <<gitVars, processedSteps, log, watch,
                   sessions, stepCreated, commitOf, node_executions, commitErrors,
                   ingestVars, opPaused, heldSteps, releasedSteps>>

\* rollbackToCommit settles. Success: ROLLBACK_COMPLETED is emitted, status
\* IDLE and pauseRequested = false are set, IDLE is broadcast. Failure: the
\* catch block emits system.error and sets status IDLE.
RollbackDone(i) ==
    /\ req[i].pc = "rollback"
    /\ LET r == rollbackToCommit(git, req[i].sha, now)
       IN  /\ git' = r.git
           /\ IF r.ok
              THEN /\ status' = "IDLE"
                   /\ pauseRequested' = FALSE
                   /\ lastBroadcast' = "IDLE"
                   /\ processedSteps' = SeenAfterRollback(processedSteps)
                   /\ req' = FinishWith(i, "completed",
                                 createMessage("state.rollback_completed", req[i].eid))
              ELSE /\ status' = StatusOnRollbackError(status)
                   /\ req' = FinishWith(i, "failed",
                                 createError(MessageOf(i), "ROLLBACK_FAILED"))
                   /\ UNCHANGED <<pauseRequested, lastBroadcast, processedSteps>>
    /\ UNCHANGED <<now, gitOps, snap, last, log, watch,
                   processed_messages, sessions, stepCreated,
                   rollbackCalls, commitOf,
                   node_executions, commitErrors, ingestVars, opPaused, heldSteps, releasedSteps>>

\* createTimeline settles. Success: the INSERT INTO sessions is issued.
\* Failure: the catch block emits system.error (BRANCH_FAILED).
TimelineDone(i) ==
    /\ req[i].pc = "timeline"
    /\ LET r == createTimeline(git, req[i].sha)
       IN  /\ git' = r.git
           /\ req' = IF r.ok THEN [req EXCEPT ![i].pc = "session",
                                              ![i].branchName = r.branchName]
                     ELSE FinishWith(i, "failed", createError(MessageOf(i), "BRANCH_FAILED"))
    /\ UNCHANGED <<now, gitOps, snap, last, status, pauseRequested, processedSteps, log, watch,
                   processed_messages, sessions, stepCreated, lastBroadcast,
                   rollbackCalls, commitOf,
                   node_executions, commitErrors, ingestVars, opPaused, heldSteps, releasedSteps>>

\* db.run callback of the INSERT INTO sessions: on an error DB_ERROR is
\* emitted, else the row exists and BRANCH_CREATED is emitted.
SessionDone(i, inserted) ==
    /\ req[i].pc = "session"
    /\ sessions' = IF inserted
                   THEN sessions \cup {[session_id |-> NewSessionId(sessions),
                                        parent_session_id |-> req[i].parentSessionId,
                                        git_branch |-> req[i].branchName,
                                        base_commit_sha |-> req[i].sha]}
                   ELSE sessions
    /\ req' = IF inserted
              THEN FinishWith(i, "completed", createMessage("branch.created", req[i].eid))
              ELSE FinishWith(i, "failed", createError(MessageOf(i), "DB_ERROR"))
    /\ UNCHANGED <<gitVars, status, pauseRequested, processedSteps, log, watch,
                   processed_messages, stepCreated, lastBroadcast,
                   rollbackCalls, commitOf,
                   node_executions, commitErrors, ingestVars, opPaused, heldSteps, releasedSteps>>

\* the continuations of the handlers: callbacks of I/O that was started
Continue ==
    \/ \E i \in 1..MaxWatch : WatchChange(i)
    \/ \E i \in 1..MaxWatch, readable \in BOOLEAN : ReadFileDone(i, readable)
    \/ \E i \in 1..MaxWatch : EngineClose(i)
    \/ \E i \in 1..MaxWatch, committed \in BOOLEAN : CommitDone(i, committed)
    \/ \E i \in 1..MaxReq : SelectDone(i)
    \/ \E i \in 1..MaxReq : InsertDone(i)
    \/ \E i \in 1..MaxReq : RollbackDone(i)
    \/ \E i \in 1..MaxReq : TimelineDone(i)
    \/ \E i \in 1..MaxReq, inserted \in BOOLEAN : SessionDone(i, inserted)

\* what the agent, the clock and the dashboard do
Environment ==
    \/ \E i \in 1..MaxWatch, s \in Steps : AppendStep(i, s)
    \/ \E i \in 1..MaxWatch : Redeliver(i)
    \/ \E i \in 1..MaxReq, e \in EventIds, sha \in Shas :
          \E message \in Envelopes(e), parentSessionId \in ParentSessionIds(e) :
              Deliver(i, e, message, sha, parentSessionId)
    \/ Tick

Next == Continue \/ Environment

Spec == Init /\ [][Next]_vars

\* Every I/O operation the server started (file read, engine run, git
\* command, database statement) terminates and its callback runs.
WatchContinue(i) ==
    \/ WatchChange(i)
    \/ \E readable \in BOOLEAN : ReadFileDone(i, readable)
    \/ EngineClose(i)
    \/ \E committed \in BOOLEAN : CommitDone(i, committed)

ReqContinue(i) ==
    \/ SelectDone(i)
    \/ InsertDone(i)
    \/ RollbackDone(i)
    \/ TimelineDone(i)
    \/ \E inserted \in BOOLEAN : SessionDone(i, inserted)

FairSpec ==
    /\ Spec
    /\ \A i \in 1..MaxWatch : WF_vars(WatchContinue(i))
    /\ \A i \in 1..MaxReq : WF_vars(ReqContinue(i))

\* ------------------------- SpecPause: the watcher under pause and resume,
\* with a record of the steps that were appended to the log during a pause.
\* The two handlers are not part of the server.js at hand; they are modelled
\* from the design (sets pauseRequested / clears it, broadcasts the status),
\* with status PAUSED being what the watcher tests.
AppendStepPaused(i, s) ==
    /\ AppendToLog(i, s)
    /\ heldSteps' = IF opPaused THEN heldSteps \cup {s} ELSE heldSteps
    /\ UNCHANGED releasedSteps

\* handler of agent.pause_requested: sets the latch and status PAUSED,
\* broadcasts STATUS_CHANGED{PAUSED}
PauseRequested ==
    /\ ~opPaused
    /\ pauseRequested' = TRUE
    /\ status' = "PAUSED"
    /\ lastBroadcast' = "PAUSED"
    /\ opPaused' = TRUE
    /\ UNCHANGED <<gitVars, processedSteps, log, watch, req,
                   processed_messages, sessions, stepCreated,
                   rollbackCalls, commitOf, ingestVars,
                   node_executions, commitErrors, heldSteps, releasedSteps>>

\* a resume handler that leaves the latch as it is
LatchKeptOnResume(latch) == latch

\* handleResumeRequested clears pauseRequested
LatchOnResume(latch) == FALSE

\* handler of agent.resume_requested: clears the latch, sets status IDLE,
\* broadcasts STATUS_CHANGED{IDLE}
ResumeRequested ==
    /\ opPaused
    /\ pauseRequested' = LatchOnResume(pauseRequested)
    /\ status' = "IDLE"
    /\ lastBroadcast' = "IDLE"
    /\ opPaused' = FALSE
    /\ releasedSteps' = releasedSteps \cup heldSteps
    /\ heldSteps' = {}
    /\ UNCHANGED <<gitVars, processedSteps, log, watch, req,
                   processed_messages, sessions, stepCreated,
                   rollbackCalls, commitOf, ingestVars,
                   node_executions, commitErrors>>

NextPause ==
    \/ \E i \in 1..MaxWatch : WatchChange(i)
    \/ \E i \in 1..MaxWatch, readable \in BOOLEAN : ReadFileDone(i, readable)
    \/ \E i \in 1..MaxWatch : EngineClose(i)
    \/ \E i \in 1..MaxWatch, committed \in BOOLEAN : CommitDone(i, committed)
    \/ \E i \in 1..MaxWatch, s \in Steps : AppendStepPaused(i, s)
    \/ \E i \in 1..MaxWatch : Redeliver(i)
    \/ PauseRequested
    \/ ResumeRequested

SpecPause == Init /\ [][NextPause]_vars

\* ---------- SpecIngest: each of the two log watchers alone with the log.
\* The server is started on a log that may hold steps already; steps are
\* appended in any order of their numbers, a read can yield malformed JSON,
\* the engine can exit with a non-zero code, and the log can be replaced by
\* a rename.
ExitCodes == {0, 1}
StartLogs == {<<>>, <<1>>}
Range(q) == {q[k] : k \in 1..Len(q)}

\* a server that starts with an empty set of seen steps
InitialReadNone(content, readable) == {}

\* the initial read: steps.forEach(step => processedSteps.add(step.step));
\* a content that does not parse leaves the set empty (catch)
InitialRead(content, readable) == IF readable THEN Range(content) ELSE {}

InitIngest ==
    \E server \in {"git", "cli"}, startLog \in StartLogs, readable \in BOOLEAN :
        /\ git = InitRepo
        /\ now = 0
        /\ gitOps = 0
        /\ snap = <<>>
        /\ last = NoCall
        /\ status = "IDLE"
        /\ pauseRequested = FALSE
        /\ processedSteps = IF server = "git" THEN InitialRead(startLog, readable) ELSE {}
        /\ log = startLog
        /\ watch = [i \in 1..MaxWatch |-> FreeWatch]
        /\ req = [i \in 1..MaxReq |-> FreeReq]
        /\ processed_messages = {}
        /\ sessions = {}
        /\ stepCreated = <<>>
        /\ lastBroadcast = "IDLE"
        /\ rollbackCalls = [e \in EventIds |-> 0]
        /\ commitOf = [s \in Steps |-> NoCommit]
        /\ node_executions = <<>>
        /\ commitErrors = <<>>
        /\ opPaused = FALSE
        /\ heldSteps = {}
        /\ releasedSteps = {}
        /\ fsWatcher = "watching"
        /\ cli = CliIdle
        /\ ingest = IngestOf(server, startLog)
        /\ stateUpdates = <<>>
        /\ resumeResponse = NoResponse
        /\ wsClient = NewClient

\* the agent rewrites reasoning_trace.json in place with one more step; the
\* fs.watch handle, if it is attached to this file, queues a 'change' callback
AppendAny(i, s) ==
    /\ ingest.server = "git"
    /\ s \in Steps \ Range(log)
    /\ log' = Append(log, s)
    /\ IF fsWatcher = "watching"
       THEN /\ SlotFree(watch, i)
            /\ watch' = [watch EXCEPT ![i].pc = "change"]
       ELSE /\ i = 1
            /\ UNCHANGED watch
    /\ UNCHANGED <<gitVars, status, pauseRequested, processedSteps, req,
                   processed_messages, sessions, stepCreated, lastBroadcast,
                   rollbackCalls, commitOf, node_executions, commitErrors,
                   ingestVars, opPaused, heldSteps, releasedSteps>>

\* fs.watch reports another 'change' for the same content
ChangeAgain(i) ==
    /\ ingest.server = "git"
    /\ fsWatcher = "watching"
    /\ Redeliver(i)

\* the contents of the log: every step number at most once
Logs ==
    {q \in UNION {[1..n -> Steps] : n \in 0..MaxSteps} :
        \A j, k \in 1..Len(q) : q[j] = q[k] => j = k}

\* what a writer that replaces the log puts in its place
Replacements(content) ==
    {content} \cup {Append(content, s) : s \in Steps \ Range(content)}

\* the log is replaced by a rename of a new file onto its path, the new
\* file holding the same steps or one more. fs.watch reports 'rename', which
\* the callback of the server ignores (eventType === 'change' only): the
\* handle stays attached to the file that was replaced.
ReplaceLog(content) ==
    /\ ingest.server = "git"
    /\ content \in Replacements(log)
    /\ log' = content
    /\ fsWatcher' = "stale"
    /\ ingest' = [ingest EXCEPT !.replaced = TRUE]
    /\ UNCHANGED <<gitVars, status, pauseRequested, processedSteps, watch, req,
                   processed_messages, sessions, stepCreated, lastBroadcast,
                   rollbackCalls, commitOf, node_executions, commitErrors,
                   cli, apiVars, opPaused, heldSteps, releasedSteps>>

\* the fs.readFile callback, with a record of a read that did not parse and
\* of a later read that found new steps
ReadFileIngest(i, readable) ==
    /\ ReadFileCallback(i, readable)
    /\ ingest' = IF ~readable THEN [ingest EXCEPT !.badRead = TRUE]
                 ELSE IF ingest.badRead /\ watch'[i].pc = "engine"
                      THEN [ingest EXCEPT !.retried = TRUE]
                      ELSE ingest

\* pythonProcess 'close' with exit code code
EngineExit(i, code) ==
    /\ CloseHandler(i)
    /\ ingest' = [ingest EXCEPT !.exit[i] = code]

\* everything but the log, the fs.watch handle, cli and ingest
GitServerVars ==
    <<gitVars, status, pauseRequested, processedSteps, watch, req,
      processed_messages, sessions, stepCreated, lastBroadcast,
      rollbackCalls, commitOf, node_executions, commitErrors,
      apiVars, opPaused, heldSteps, releasedSteps>>

\* a finally block that leaves the flag set
GuardKept(flag) == flag

\* finally { isProcessing = false }
GuardReleased(flag) == FALSE

\* processFileChange() is called: if (isProcessing) return; else the flag
\* is set and, the file existing, fs.promises.readFile is awaited
EnterPass(c) ==
    IF c.isProcessing THEN c
    ELSE [c EXCEPT !.isProcessing = TRUE, !.pc = "read"]

\* the pass ends: the finally block runs
EndPass(c) ==
    [c EXCEPT !.isProcessing = GuardReleased(c.isProcessing), !.pc = "idle",
              !.steps = <<>>, !.idx = 0]

\* a loop that marks every step of the batch before the first await
CliMarkWholeBatch(seen, steps, k) == seen \cup Range(steps)

\* processedSteps.add(step.step), right before runLangGraph('add') is
\* awaited for that step
CliMarkSeen(seen, steps, k) == seen \cup {steps[k]}

\* the for loop over newSteps from position from up to its next await
\* (runLangGraph('add') for the next unseen step) or, at its end,
\* io.emit('agent-status', IDLE) and the finally block
CliLoopFrom(c, steps, from) ==
    LET k == NextIdx(steps, from, c.processedSteps)
    IN  IF k = 0
        THEN EndPass([c EXCEPT !.status = "IDLE"])
        ELSE [c EXCEPT !.pc = "add", !.steps = steps, !.idx = k,
                       !.processedSteps = CliMarkSeen(@, steps, k)]

\* the agent rewrites the log in place with one more step; the handle, if
\* attached to this file, queues a callback with eventType 'change'
CliAppend(s) ==
    /\ ingest.server = "cli"
    /\ s \in Steps \ Range(log)
    /\ log' = Append(log, s)
    /\ IF fsWatcher = "watching"
       THEN /\ cli.pending < MaxWatch
            /\ cli' = [cli EXCEPT !.pending = @ + 1]
       ELSE UNCHANGED cli
    /\ UNCHANGED <<GitServerVars, fsWatcher, ingest>>

\* fs.watch reports another 'change' for the same content
CliChangeAgain ==
    /\ ingest.server = "cli"
    /\ fsWatcher = "watching" /\ log # <<>>
    /\ cli.pending < MaxWatch
    /\ cli' = [cli EXCEPT !.pending = @ + 1]
    /\ UNCHANGED <<GitServerVars, log, fsWatcher, ingest>>

\* the log is replaced by a rename; the callback runs with eventType
\* 'rename' and sets the 100 ms timer; the handle is still the old one
CliReplaceLog(content) ==
    /\ ingest.server = "cli"
    /\ content \in Replacements(log)
    /\ cli.timers = 0
    /\ log' = content
    /\ fsWatcher' = "stale"
    /\ cli' = [cli EXCEPT !.timers = 1]
    /\ ingest' = [ingest EXCEPT !.replaced = TRUE]
    /\ UNCHANGED GitServerVars

\* the timer fires: startWatcher() closes the handle and, the file
\* existing, watches the path again; then processFileChange()
CliTimer ==
    /\ ingest.server = "cli"
    /\ cli.timers > 0
    /\ fsWatcher' = "watching"
    /\ cli' = EnterPass([cli EXCEPT !.timers = @ - 1])
    /\ UNCHANGED <<GitServerVars, log, ingest>>

\* the fs.watch callback runs with eventType 'change': processFileChange()
CliChange ==
    /\ ingest.server = "cli"
    /\ cli.pending > 0
    /\ cli' = EnterPass([cli EXCEPT !.pending = @ - 1])
    /\ UNCHANGED <<GitServerVars, log, fsWatcher, ingest>>

\* readFile settles. A content that does not parse (or a failed read) goes
\* to the catch block; no new step ends the pass; else RUNNING is emitted
\* and the loop runs up to its first runLangGraph('add')
CliReadDone(readable) ==
    /\ ingest.server = "cli"
    /\ cli.pc = "read"
    /\ LET newSteps == SelectSeq(log, LAMBDA s : s \notin cli.processedSteps)
       IN  /\ cli' = IF ~readable \/ newSteps = <<>>
                     THEN EndPass(cli)
                     ELSE CliLoopFrom([cli EXCEPT !.status = "RUNNING"], newSteps, 1)
           /\ ingest' = IF ~readable THEN [ingest EXCEPT !.badRead = TRUE]
                        ELSE IF ingest.badRead /\ newSteps # <<>>
                             THEN [ingest EXCEPT !.retried = TRUE]
                             ELSE ingest
    /\ UNCHANGED <<GitServerVars, log, fsWatcher>>

\* runLangGraph('add') settles for the step at idx: resolved, 'new-step' is
\* emitted and the loop goes on; rejected (the process exited with a
\* non-zero code), the catch block logs the error and the pass ends
CliAddDone(ok) ==
    /\ ingest.server = "cli"
    /\ cli.pc = "add"
    /\ cli' = IF ok
              THEN CliLoopFrom([cli EXCEPT !.newStep = Append(@, cli.steps[cli.idx])],
                               cli.steps, cli.idx + 1)
              ELSE EndPass([cli EXCEPT
                       !.addFailed = TRUE,
                       !.failed = @ \cup {cli.steps[cli.idx]},
                       !.leftover = @ \cup {cli.steps[j] : j \in (cli.idx + 1)..Len(cli.steps)}])
    /\ UNCHANGED <<GitServerVars, log, fsWatcher, ingest>>

NextIngest ==
    \/ \E s \in Steps : CliAppend(s)
    \/ CliChangeAgain
    \/ \E content \in Logs : CliReplaceLog(content)
    \/ CliTimer
    \/ CliChange
    \/ \E readable \in BOOLEAN : CliReadDone(readable)
    \/ \E ok \in BOOLEAN : CliAddDone(ok)
    \/ \E i \in 1..MaxWatch, s \in Steps : AppendAny(i, s)
    \/ \E i \in 1..MaxWatch : ChangeAgain(i)
    \/ \E content \in Logs : ReplaceLog(content)
    \/ \E i \in 1..MaxWatch : WatchChange(i)
    \/ \E i \in 1..MaxWatch, readable \in BOOLEAN : ReadFileIngest(i, readable)
    \/ \E i \in 1..MaxWatch, code \in ExitCodes : EngineExit(i, code)
    \/ \E i \in 1..MaxWatch, committed \in BOOLEAN : CommitDone(i, committed)

SpecIngest == InitIngest /\ [][NextIngest]_vars

\* the continuations of the awaits of processFileChange
CliReadSettles == \E readable \in BOOLEAN : CliReadDone(readable)
CliAddSettles == \E ok \in BOOLEAN : CliAddDone(ok)

\* SpecIngest in which every queued callback of cli/server.js runs in the
\* end and every awaited promise settles; the agent is not bound to write
\* the log again
FairSpecIngest ==
    /\ SpecIngest
    /\ WF_vars(CliTimer) /\ WF_vars(CliChange)
    /\ WF_vars(CliReadSettles) /\ WF_vars(CliAddSettles)

\* -------- SpecResume: POST /api/sessions/:sessionId/resume on a table of
\* node executions. A state delta is an object over Keys; the column
\* state_update_json holds NULL, the JSON text of such an object, or the
\* JSON text null.
Keys == {"files", "plan"}
KeyOrder == <<"files", "plan">>
Values == {1, 2}
Objects == UNION {[D -> Values] : D \in SUBSET Keys}
ResumeSessionIds == {<<"session", 1>>, <<"session", 2>>}

\* the text json.dumps / JSON.stringify writes for an object: its members
\* as key and value, one after the other
JsonStringify(o) ==
    LET ks == SelectSeq(KeyOrder, LAMBDA k : k \in DOMAIN o)
    IN  [kind |-> "object", members |-> [j \in 1..Len(ks) |-> <<ks[j], o[ks[j]]>>]]

JsonNull == [kind |-> "null", members |-> <<>>]

\* JSON.parse(text): null for the text null, else the object that maps each
\* member's key to the value of the last member with that key
JsonParse(text) ==
    IF text.kind = "null" THEN [isNull |-> TRUE, object |-> EmptyObject]
    ELSE LET m == text.members
             at(k) == CHOOSE j \in 1..Len(m) :
                         /\ m[j][1] = k
                         /\ \A i \in (j + 1)..Len(m) : m[i][1] # k
         IN  [isNull |-> FALSE,
              object |-> [k \in {m[j][1] : j \in 1..Len(m)} |-> m[at(k)][2]]]

\* the values of column state_update_json
SqlNull == [isNull |-> TRUE, text |-> JsonNull]
StateUpdateJsons ==
    {SqlNull} \cup {[isNull |-> FALSE, text |-> t] :
                       t \in {JsonNull} \cup {JsonStringify(o) : o \in Objects}}

\* the tables node_executions can be: row id is the position (AUTOINCREMENT)
ExecutionTables ==
    UNION {[1..n -> [session_id : ResumeSessionIds,
                     state_update_json : StateUpdateJsons]] : n \in 0..MaxRows}

\* { ...update, ...cumulativeState }: a key of both keeps the earlier value
SpreadKeepFirst(cumulativeState, update) ==
    IF update.isNull THEN cumulativeState
    ELSE [k \in DOMAIN cumulativeState \cup DOMAIN update.object |->
            IF k \in DOMAIN cumulativeState THEN cumulativeState[k] ELSE update.object[k]]

\* { ...cumulativeState, ...update }: the own keys of update are copied
\* over those of cumulativeState; spreading null copies nothing
Spread(cumulativeState, update) ==
    IF update.isNull THEN cumulativeState
    ELSE [k \in DOMAIN cumulativeState \cup DOMAIN update.object |->
            IF k \in DOMAIN update.object THEN update.object[k] ELSE cumulativeState[k]]

\* SELECT id, state_update_json FROM node_executions
\* WHERE session_id = ? AND id <= ? ORDER BY id ASC: the ids, ascending
SelectUpTo(table, sessionId, checkpoint) ==
    SelectSeq([id \in 1..Len(table) |-> id],
              LAMBDA id : table[id].session_id = sessionId /\ id <= checkpoint)

\* rows.forEach(row => { if (row.state_update_json) cumulativeState =
\* { ...cumulativeState, ...JSON.parse(row.state_update_json) } }) over the
\* first n rows
RECURSIVE Reconstruct(_, _, _)
Reconstruct(table, ids, n) ==
    IF n = 0 THEN EmptyObject
    ELSE LET cumulativeState == Reconstruct(table, ids, n - 1)
             row == table[ids[n]]
         IN  IF row.state_update_json.isNull THEN cumulativeState
             ELSE Spread(cumulativeState, JsonParse(row.state_update_json.text))

InitResume ==
    \E table \in ExecutionTables :
        /\ git = InitRepo
        /\ now = 0
        /\ gitOps = 0
        /\ snap = <<>>
        /\ last = NoCall
        /\ status = "IDLE"
        /\ pauseRequested = FALSE
        /\ processedSteps = {}
        /\ log = <<>>
        /\ watch = [i \in 1..MaxWatch |-> FreeWatch]
        /\ req = [i \in 1..MaxReq |-> FreeReq]
        /\ processed_messages = {}
        /\ sessions = {}
        /\ stepCreated = <<>>
        /\ lastBroadcast = "IDLE"
        /\ rollbackCalls = [e \in EventIds |-> 0]
        /\ commitOf = [s \in Steps |-> NoCommit]
        /\ node_executions = <<>>
        /\ commitErrors = <<>>
        /\ opPaused = FALSE
        /\ heldSteps = {}
        /\ releasedSteps = {}
        /\ fsWatcher = "watching"
        /\ cli = CliIdle
        /\ ingest = IngestOf("git", <<>>)
        /\ stateUpdates = table
        /\ resumeResponse = NoResponse
        /\ wsClient = NewClient

\* the handler of POST /api/sessions/:sessionId/resume with body
\* { checkpoint_node_id }: 400 when the field is missing (or 0), else the
\* rows are selected and folded and the state is returned
ResumeFromCheckpoint(sessionId, checkpoint_node_id) ==
    /\ resumeResponse' =
          IF checkpoint_node_id = Missing
          THEN [NoResponse EXCEPT !.code = 400]
          ELSE LET rows == SelectUpTo(stateUpdates, sessionId, checkpoint_node_id)
               IN  [code |-> 200, session_id |-> sessionId,
                    checkpoint_node_id |-> checkpoint_node_id,
                    state |-> Reconstruct(stateUpdates, rows, Len(rows))]
    /\ UNCHANGED <<gitVars, status, pauseRequested, processedSteps, log, watch, req,
                   processed_messages, sessions, stepCreated, lastBroadcast,
                   rollbackCalls, commitOf, node_executions, commitErrors,
                   fsWatcher, cli, ingest, stateUpdates, wsClient,
                   opPaused, heldSteps, releasedSteps>>

NextResume ==
    \E sessionId \in ResumeSessionIds, checkpoint_node_id \in 0..(MaxRows + 1) :
        ResumeFromCheckpoint(sessionId, checkpoint_node_id)

SpecResume == InitResume /\ [][NextResume]_vars

\* ------- SpecClient: the dashboard's WebSocketClient receiving agent-event
\* messages, each with a handler registered for its event_type
\* this.processedEventIds.has(id)
Has(processed, id) == \E j \in 1..Len(processed) : processed[j] = id

\* if (this.processedEventIds.size > 1000) the first value of the Set's
\* iteration, the id that was added first, is deleted
Limit(processed) ==
    IF Len(processed) > MaxProcessedIds THEN Tail(processed) ELSE processed

\* WebSocketClient.handleIncomingMessage(message) for a message with
\* event_id id (Missing: a message without event_id, which is dropped)
HandleIncomingMessage(id) ==
    /\ wsClient.received < MaxIncoming
    /\ wsClient' =
          IF id = Missing \/ Has(wsClient.processedEventIds, id)
          THEN [wsClient EXCEPT !.received = @ + 1]
          ELSE [wsClient EXCEPT
                   !.received = @ + 1,
                   !.processedEventIds = Limit(Append(@, id)),
                   !.dispatched[id] = @ + 1]
    /\ UNCHANGED <<gitVars, status, pauseRequested, processedSteps, log, watch, req,
                   processed_messages, sessions, stepCreated, lastBroadcast,
                   rollbackCalls, commitOf, node_executions, commitErrors,
                   fsWatcher, cli, ingest, stateUpdates, resumeResponse,
                   opPaused, heldSteps, releasedSteps>>

NextClient == \E id \in ClientEventIds \cup {Missing} : HandleIncomingMessage(id)

SpecClient == Init /\ [][NextClient]_vars

\* ================================================================ claims
CliCount(s) == Cardinality({k \in 1..Len(cli.newStep) : cli.newStep[k] = s})
Count(s) == Cardinality({k \in 1..Len(stepCreated) : stepCreated[k] = s})
Quiescent == \A i \in 1..MaxWatch : watch[i].pc = "free"
BatchInProgress(i) == watch[i].pc \in {"engine", "commit"}
CommitInFlight(s) == \E i \in 1..MaxWatch : watch[i].pc = "commit" /\ watch[i].steps[watch[i].idx] = s
CommitFailed(s) == s \in processedSteps /\ commitOf[s] = NoCommit /\ ~CommitInFlight(s)
Delivered(e) == {i \in 1..MaxReq : req[i].pc # "free" /\ req[i].valid /\ req[i].eid = e}
CleanAtCall == last.preWt = Tree(git, last.preHead)

\* C1: two rollback requests with different eventIds never have their
\* rollbackToCommit calls in flight at the same time.
C1_RollbackMutualExclusion ==
    \A i, j \in 1..MaxReq :
        (req[i].pc = "rollback" /\ req[j].pc = "rollback") => req[i].eid = req[j].eid

\* C2: a rollback request delivered twice with the same eventId calls
\* rollbackToCommit at most once, and exactly once as soon as every delivery
\* has passed checkAndRecordMessage, also when both deliveries ran their
\* SELECT before either INSERT.
C2_RollbackExactlyOnce ==
    \A e \in RollbackEventIds :
        /\ rollbackCalls[e] <= 1
        /\ (Delivered(e) # {} /\ \A i \in Delivered(e) : req[i].pc \notin {"select", "insert"})
              => rollbackCalls[e] = 1

\* C2 witness: two deliveries of one eventId, the INSERT of one failed on
\* the key the other had inserted, and rollbackToCommit was called once.
C2_Witness ==
    \E i, j \in 1..MaxReq :
        /\ i # j /\ req[i].eid = req[j].eid /\ req[i].eid \in RollbackEventIds
        /\ req[i].outcome = "insert_failed"
        /\ req[j].outcome = "completed"
        /\ rollbackCalls[req[i].eid] = 1

\* C3: at most one of {ingestion batch, rollback, branch creation} is in
\* progress at any time.
C3_SerializedWork ==
    Cardinality({i \in 1..MaxWatch : BatchInProgress(i)})
      + Cardinality({i \in 1..MaxReq : req[i].pc \in {"rollback", "timeline", "session"}}) <= 1

\* C4: however often and whenever the change notification for the same log
\* content is delivered, every step is committed at most once and
\* STEP_CREATED is emitted exactly once for every committed step and never
\* for another.
C4_IdempotentIngestion ==
    /\ \A s \in Steps : Count(s) = (IF commitOf[s] # NoCommit THEN 1 ELSE 0)
    /\ Len(git.commits) = Cardinality({s \in Steps : commitOf[s] # NoCommit})

\* C4 witness: two callbacks that read the same content are both in their
\* batch, and a step both of them hold has been emitted once.
C4_Witness ==
    \E i, j \in 1..MaxWatch, s \in Steps :
        /\ i # j /\ BatchInProgress(i) /\ BatchInProgress(j)
        /\ watch[i].steps = watch[j].steps
        /\ \E k \in 1..Len(watch[i].steps) : watch[i].steps[k] = s
        /\ Count(s) = 1

\* C5: no STEP_CREATED is emitted for a step appended during a pause before
\* the resume request, and once the pause is resumed and the server has
\* nothing left in flight, every such step has been fed downstream.
C5_PauseThenIngest ==
    /\ \A s \in heldSteps : Count(s) = 0
    /\ (Quiescent /\ ~opPaused) => releasedSteps \subseteq processedSteps

\* C6: a rollbackToCommit(A) that is called with a clean working tree (as
\* right after commitStep(B)) and returns leaves the working tree equal to
\* its content right after commitStep(A), and the backup branch it names
\* exists with the pre-rollback HEAD as its tip.
C6_RollbackRoundTrip ==
    (last.op = "rollback" /\ last.ok /\ CleanAtCall) =>
        /\ git.wt = snap[last.sha]
        /\ last.backupBranch \in DOMAIN git.branches
        /\ git.branches[last.backupBranch] = last.preHead

\* C6 witness: a rollback from commit B back to an earlier commit A with
\* another content has returned.
C6_Witness ==
    /\ last.op = "rollback" /\ last.ok /\ CleanAtCall
    /\ last.sha < last.preHead
    /\ snap[last.sha] # snap[last.preHead]

\* C7: a rollbackToCommit(X) called with uncommitted changes and returning
\* has put every changed path into a new stash entry, made the backup
\* branch at the pre-rollback HEAD and moved HEAD to X.
C7_DirtyRollbackStashes ==
    (last.op = "rollback" /\ last.ok /\ ~CleanAtCall) =>
        /\ Len(git.stash) = last.preStash + 1
        /\ \A f \in Files : last.preWt[f] # Tree(git, last.preHead)[f]
                                => git.stash[1].tree[f] = last.preWt[f]
        /\ last.backupBranch \in DOMAIN git.branches
        /\ git.branches[last.backupBranch] = last.preHead
        /\ HEAD(git) = last.sha

\* C8: every STEP_CREATED event is for a step whose createStepCommit has
\* returned a commit that exists; none is emitted for a failed commit.
C8_StepCreatedAfterCommit ==
    \A k \in 1..Len(stepCreated) :
        /\ commitOf[stepCreated[k]] # NoCommit
        /\ IsCommit(git, commitOf[stepCreated[k]])

\* C8 witness: the commit of one step failed and no event was emitted for
\* it, while another step of the log was committed and emitted.
C8_Witness ==
    \E s, t \in Steps :
        /\ CommitFailed(s) /\ Count(s) = 0
        /\ commitOf[t] # NoCommit /\ Count(t) = 1

\* C9: observers have been told every value status takes: the status of the
\* last STATUS_CHANGED broadcast is the current status.
C9_StatusBroadcast == lastBroadcast = status

\* C10: whenever status is ROLLING_BACK it is IDLE again later, whether
\* rollbackToCommit succeeds or fails.
C10_RollbackReturnsToIdle == (status = "ROLLING_BACK") ~> (status = "IDLE")

\* C10 witness: an accepted rollback whose rollbackToCommit failed has
\* ended and status is IDLE.
C10_Witness ==
    \E i \in 1..MaxReq :
        /\ req[i].eid \in RollbackEventIds /\ req[i].outcome = "failed"
        /\ status = "IDLE"

\* C11: while a rollbackToCommit call is in flight, status is ROLLING_BACK.
C11_RollingBackWhileInFlight ==
    \A i \in 1..MaxReq : req[i].pc = "rollback" => status = "ROLLING_BACK"

\* C12: every step that takes status into PAUSED or into ROLLING_BACK from
\* another value starts with status IDLE.
C12_EnteredOnlyFromIdle ==
    [][(status' \in {"PAUSED", "ROLLING_BACK"} /\ status' # status) => status = "IDLE"]_vars

\* C13: an ingestion batch starts (the readFile callback sets RUNNING and
\* spawns the engine) only in a state where status is IDLE.
C13_BatchStartsOnlyFromIdle ==
    [][\A i \in 1..MaxWatch :
          (watch[i].pc = "read" /\ watch'[i].pc = "engine") => status = "IDLE"]_vars

\* C14: handling a control message that fails validation changes no field
\* of agentState and starts no version-control operation.
C14_InvalidMessageChangesNothing ==
    [][\A i \in 1..MaxReq :
          (req[i].pc = "free" /\ req'[i].outcome = "invalid") =>
              /\ status' = status
              /\ pauseRequested' = pauseRequested
              /\ git' = git
              /\ rollbackCalls' = rollbackCalls]_vars

\* C15: a request whose eventId is already in processed_messages when its
\* handler looks at the table (at its SELECT, or at its INSERT when both
\* deliveries ran their SELECT first) is dropped silently: its handler emits
\* no event, changes no field of agentState and performs no version-control
\* or ledger operation.
C15_DuplicateSilentlyDropped ==
    [][\A i \in 1..MaxReq :
          (req[i].pc \in {"select", "insert"} /\ req'[i].pc = "done"
             /\ req[i].eid \in processed_messages) =>
              /\ req'[i].events = <<>>
              /\ status' = status
              /\ pauseRequested' = pauseRequested
              /\ git' = git
              /\ sessions' = sessions
              /\ processed_messages' = processed_messages]_vars

C17_BranchLineage ==
    [][\A r \in sessions' \ sessions :
          r.parent_session_id # NoSession =>
              /\ r.base_commit_sha # NoCommit
              /\ \E p \in sessions :
                    /\ p.session_id = r.parent_session_id
                    /\ r.base_commit_sha \in History(git, p.git_branch)]_vars

BranchRequests == {i \in 1..MaxReq : req[i].valid /\ KindOf(req[i].eid) = "branch"}

\* C18: a branch request from commit X that succeeds creates a new branch
\* with tip X and switches to it; it inserts one new session row with
\* baseCommitRef X, the created branch and the given parentSessionId; and it
\* emits one event, branch.created, whose correlationId is its eventId.
C18_BranchCreated ==
    /\ [][\A i \in BranchRequests :
            /\ (req[i].pc = "timeline" /\ req'[i].pc = "session") =>
                  /\ req'[i].branchName \notin DOMAIN git.branches
                  /\ req'[i].branchName \in DOMAIN git'.branches
                  /\ git'.branches[req'[i].branchName] = req[i].sha
                  /\ git'.cur = req'[i].branchName
            /\ (req[i].pc = "session" /\ req'[i].outcome = "completed") =>
                  /\ Cardinality(sessions') = Cardinality(sessions) + 1
                  /\ \E r \in sessions' \ sessions :
                        /\ r.base_commit_sha = req[i].sha
                        /\ r.git_branch = req[i].branchName
                        /\ r.parent_session_id = req[i].parentSessionId]_vars
    /\ [](\A i \in BranchRequests :
            req[i].outcome = "completed" =>
                req[i].events = <<createMessage("branch.created", req[i].eid)>>)

\* C18 witness: a branch request from the first commit has succeeded after a
\* second commit had been made, so that the branch is not rooted at the HEAD
\* of that time.
C18_Witness ==
    \E i \in BranchRequests :
        /\ req[i].outcome = "completed"
        /\ req[i].sha \notin {git.branches[MainBranch], NoCommit}
        /\ \E r \in sessions : r.git_branch = req[i].branchName

ErrCount(s) == Cardinality({k \in 1..Len(commitErrors) : commitErrors[k] = s})

\* C19: once the server has nothing in flight, every step that was
\* committed has its own node_executions row carrying the commit made for
\* it: n committed steps have n rows with n distinct non-null commitRefs,
\* none overwritten by a later step.
C19_LedgerAfterBatch ==
    Quiescent =>
        \A s \in Steps :
            commitOf[s] # NoCommit =>
                \E k \in 1..Len(node_executions) :
                    /\ node_executions[k].step = s
                    /\ node_executions[k].commit_sha = commitOf[s]

\* the commit of step s settles as a failure in this step of the server
CommitFails(s) == ~CommitFailed(s) /\ CommitFailed(s)'

\* C20: when the commit of one step of a batch fails, one system.error is
\* emitted for it and neither the ledger update nor STEP_CREATED happens for
\* it; the loop goes on with the rest of the batch: the batch ends only
\* when every step of it has been taken up, and every step that was
\* committed has been broadcast.
C20_PartialBatchFailure ==
    /\ [](\A s \in Steps : CommitFailed(s) => ErrCount(s) = 1 /\ Count(s) = 0)
    /\ [][\A s \in Steps :
            CommitFails(s) => /\ commitErrors' = Append(commitErrors, s)
                              /\ node_executions' = node_executions
                              /\ stepCreated' = stepCreated]_vars
    /\ [][\A i \in 1..MaxWatch :
            (watch[i].pc = "commit" /\ watch'[i].pc # "commit") =>
                \A k \in 1..Len(watch[i].steps) :
                    watch[i].steps[k] \in processedSteps']_vars
    /\ [](\A s \in Steps : commitOf[s] # NoCommit => Count(s) = 1 /\ ErrCount(s) = 0)

\* C20 witness: the commit of the first step failed and was reported once,
\* and the step after it was committed, attached to its ledger row and
\* broadcast; nothing is in flight any more.
C20_Witness ==
    /\ Quiescent
    /\ \E s, t \in Steps :
        /\ s < t
        /\ CommitFailed(s) /\ ErrCount(s) = 1 /\ Count(s) = 0
        /\ commitOf[t] # NoCommit /\ Count(t) = 1
        /\ \E k \in 1..Len(node_executions) :
              node_executions[k].step = t /\ node_executions[k].commit_sha = commitOf[t]

\* C22: the pause latch agrees with the status about whether a batch may
\* start: pauseRequested is true exactly when the status is one the watcher
\* refuses to start a batch in (PAUSED, ROLLING_BACK); so it is false when
\* the status is IDLE after a rollback has ended, successfully or not.
C22_LatchAgreesWithStatus ==
    pauseRequested <=> status \in {"PAUSED", "ROLLING_BACK"}

\* C24: status is RUNNING for the whole batch: while the engine of a batch
\* runs or one of its commits is in flight the status is RUNNING, and IDLE
\* is broadcast only when no batch has a commit in flight.
C24_RunningForWholeBatch ==
    \A i \in 1..MaxWatch : BatchInProgress(i) => status = "RUNNING"

\* a processing pass over the log: from the read of the file to the end of
\* the loop over its steps
PassInFlight(i) == watch[i].pc \in {"read", "engine", "commit"}

\* C26: at most one processing pass over the reasoning log is in flight at
\* any time; a change notification that arrives during a pass starts no
\* second pass.
C26_IngestGuard ==
    Cardinality({i \in 1..MaxWatch : PassInFlight(i)}) <= 1

StepInFlight(i) == watch[i].steps[watch[i].idx]

\* C21: when the engine exits with a non-zero code for a batch, no step of
\* that batch is committed or broadcast as STEP_CREATED (and a system.error
\* is surfaced instead).
C21_EngineFailureFailsBatch ==
    [][\A i \in 1..MaxWatch :
          (/\ watch[i].pc = "commit"
           /\ \/ commitOf'[StepInFlight(i)] # commitOf[StepInFlight(i)]
              \/ stepCreated' # stepCreated /\ watch'[i] # watch[i])
          => ingest.exit[i] = 0]_vars

\* C25: within one batch, steps are committed and broadcast in ascending
\* step-number order: the step a batch takes up next has a higher number
\* than the one it has just finished, whatever the order of the log.
C25_AscendingWithinBatch ==
    [][\A i \in 1..MaxWatch :
          (watch[i].pc = "commit" /\ watch'[i].pc = "commit" /\ watch'[i] # watch[i])
          => StepInFlight(i) < watch'[i].steps[watch'[i].idx]]_vars

\* no read failed, the log was never replaced, no engine run and no commit failed
NoFailure ==
    /\ ~ingest.badRead /\ ~ingest.replaced /\ ~cli.addFailed
    /\ \A i \in 1..MaxWatch : ingest.exit[i] = 0
    /\ \A s \in Steps : ~CommitFailed(s)

\* the server has nothing left to do: no callback queued, no timer set, no pass in flight
NothingPending ==
    /\ Quiescent
    /\ cli.pc = "idle" /\ cli.pending = 0 /\ cli.timers = 0

\* the steps appended to the log since the server started
Appended == Range(log) \ Range(ingest.startLog)

\* C27: no step is lost: every step appended to the log is fed downstream
\* exactly once, also a step whose change notification arrived while an
\* earlier pass was in flight and was followed by no further change of the
\* log. With no failure of a read, the engine or a commit: once the server
\* has nothing left to do, every appended step has been fed, and no step is
\* ever fed twice.
C27_NoLostStep ==
    /\ \A s \in Steps : Count(s) <= 1 /\ CliCount(s) <= 1
    /\ (NothingPending /\ NoFailure) =>
          \A s \in Appended :
              IF ingest.server = "git" THEN Count(s) = 1 ELSE CliCount(s) = 1

\* C28: a step that the log held when the server started never produces a
\* commit, a STEP_CREATED or a new-step event.
C28_SeededFromLog ==
    \A s \in Range(ingest.startLog) :
        /\ commitOf[s] = NoCommit /\ Count(s) = 0 /\ ~CommitInFlight(s)
        /\ CliCount(s) = 0

\* C30: after the log was replaced by a rename the watch is re-established:
\* once no restart of the watcher is pending, the fs.watch handle is
\* attached to the file that is at the path of the log, so that later
\* changes are detected.
C30_WatchReestablished ==
    cli.timers = 0 => fsWatcher = "watching"

\* C29: a read of the log that yields malformed JSON is ignored. A read
\* that ends without a batch although the log holds unseen steps (the
\* content did not parse) leaves the seen-set and the status unchanged and
\* emits nothing; the processing guard is released, so that the callback of
\* the next change notification starts a read again.
C29_MalformedReadIgnored ==
    /\ [][\A i \in 1..MaxWatch :
            (/\ watch[i].pc = "read" /\ watch'[i].pc = "free"
             /\ \E k \in 1..Len(log) : log[k] \notin processedSteps)
            => UNCHANGED <<processedSteps, status, lastBroadcast, stepCreated,
                           commitErrors, commitOf, git>>]_vars
    /\ [][(/\ cli.pc = "read" /\ cli'.pc = "idle"
           /\ \E k \in 1..Len(log) : log[k] \notin cli.processedSteps)
          => /\ ~cli'.isProcessing
             /\ cli'.processedSteps = cli.processedSteps
             /\ cli'.newStep = cli.newStep
             /\ cli'.status = cli.status]_vars
    /\ [][\A i \in 1..MaxWatch :
            (watch[i].pc = "change" /\ watch'[i] # watch[i]) => watch'[i].pc = "read"]_vars
    /\ [][(cli.pc = "idle" /\ cli'.pending < cli.pending) => cli'.pc = "read"]_vars

\* C29 witness: the only step of the log was appended after cli/server.js
\* had started; a read did not parse and was ignored, a later read found
\* the step and its new-step event was emitted.
C29_Witness ==
    /\ ingest.server = "cli" /\ ingest.startLog = <<>>
    /\ ingest.badRead /\ ingest.retried
    /\ Len(log) = 1 /\ CliCount(log[1]) = 1


\* C32: a rollback whose target commit exists never fails: the backup
\* branch named from Date.now() is never a name already in use, however
\* close in time an earlier rollback made its own.
C32_BackupNamesNeverCollide ==
    [][\A i \in 1..MaxReq :
          (RollbackDone(i) /\ IsCommit(git, req[i].sha))
              => /\ req'[i].outcome = "completed"
                 /\ <<"backup", now>> \notin DOMAIN git.branches]_vars


\* C34: a rollbackToCommit whose target is no commit leaves the repository
\* as it was: HEAD, the branches, the stash and the working tree with its
\* uncommitted changes are those of before the call.
C34_FailedRollbackChangesNothing ==
    [][\A sha \in 1..MaxCommits :
          (CallRollbackToCommit(sha) /\ ~IsCommit(git, sha)) => git' = git]_vars


C33_PauseKeepsRunningBatch ==
    [][\A i \in 1..MaxWatch :
          /\ (opPaused /\ BatchInProgress(i))
                => \/ watch'[i].pc # "free"
                   \/ NextIdx(watch[i].steps, 1, processedSteps') = 0
          /\ (opPaused /\ status = "PAUSED" /\ watch[i].pc = "engine" /\ watch'[i].pc # "engine")
                => status' = "PAUSED"
          /\ opPaused => ~(watch[i].pc = "change" /\ watch'[i].pc = "read")]_vars


\* C38: every timeline branch of the repository has a row of table sessions
\* with that git_branch, or the INSERT of that row is still in flight: a
\* branch request whose INSERT failed leaves no branch behind.
C38_BranchAndSessionAtomic ==
    \A b \in Timelines(git) :
        \/ \E row \in sessions : row.git_branch = b
        \/ \E i \in 1..MaxReq : req[i].pc = "session" /\ req[i].branchName = b


\* C36: in the file-watcher server every 'agent-status' RUNNING event is
\* followed in the end by an 'agent-status' IDLE event, also when a
\* runLangGraph('add') of the batch is rejected.
C36_RunningThenIdle ==
    (cli.status = "RUNNING") ~> (cli.status = "IDLE")


\* the step whose runLangGraph('add') the pass of cli/server.js awaits
CliInFlight(s) == cli.pc = "add" /\ cli.steps[cli.idx] = s

\* C37: in the file-watcher server a step whose add to the engine was
\* rejected stays in processedSteps and is neither announced by new-step
\* nor added again; when the add is rejected the later steps of the batch
\* are not in processedSteps and the guard is released, and a later read of
\* a log that holds them takes them up; no step is announced twice.
C37_FailedAddSkipsOneStep ==
    /\ [](\A s \in cli.failed :
             s \in cli.processedSteps /\ CliCount(s) = 0 /\ ~CliInFlight(s))
    /\ [](\A s \in Steps : CliCount(s) <= 1)
    /\ [][(cli.pc = "add" /\ cli'.failed # cli.failed)
             => /\ ~cli'.isProcessing /\ cli'.pc = "idle"
                /\ \A j \in (cli.idx + 1)..Len(cli.steps) :
                      cli.steps[j] \notin cli'.processedSteps]_vars
    /\ [][(/\ CliReadDone(TRUE)
           /\ \E s \in cli.leftover : s \in Range(log) /\ s \notin cli.processedSteps)
             => /\ cli'.pc = "add"
                /\ cli'.steps[cli'.idx] \notin cli.processedSteps]_vars

\* C37 witness: the add of step 1 was rejected in a batch that also held
\* step 2; step 1 was never announced, step 2 was announced once by a
\* later pass.
C37_Witness ==
    /\ ingest.server = "cli"
    /\ cli.failed = {1} /\ cli.leftover = {2}
    /\ CliCount(1) = 0 /\ CliCount(2) = 1
    /\ cli.pc = "idle"


\* the executions of the answered request's session with id <= checkpoint
InScope ==
    {id \in 1..Len(stateUpdates) :
        /\ stateUpdates[id].session_id = resumeResponse.session_id
        /\ id <= resumeResponse.checkpoint_node_id}

\* the delta of execution id: no key for a NULL column or the text null
DeltaOf(id) ==
    IF stateUpdates[id].state_update_json.isNull THEN EmptyObject
    ELSE JsonParse(stateUpdates[id].state_update_json.text).object

\* the executions in scope whose delta sets key k
Writers(k) == {id \in InScope : k \in DOMAIN DeltaOf(id)}

\* C31: the state returned for a checkpoint holds, for each key, the value
\* written by the latest execution of the session with id <= checkpoint
\* that sets it, and no other key; executions with a null delta contribute
\* nothing.
C31_CumulativeStateIsLatestWriter ==
    resumeResponse.code = 200 =>
        /\ DOMAIN resumeResponse.state = {k \in Keys : Writers(k) # {}}
        /\ \A k \in DOMAIN resumeResponse.state :
              \E id \in Writers(k) :
                  /\ \A other \in Writers(k) : other <= id
                  /\ resumeResponse.state[k] = DeltaOf(id)[k]

\* C31 witness: a state was returned for a checkpoint up to which two
\* executions of the session set one key to different values and a third,
\* between them, has a NULL delta.
C31_Witness ==
    /\ resumeResponse.code = 200
    /\ \E k \in Keys : \E a, b \in Writers(k) :
          /\ DeltaOf(a)[k] # DeltaOf(b)[k]
          /\ \E id \in InScope :
                a < id /\ id < b /\ stateUpdates[id].state_update_json.isNull


\* C39: whatever agent-event messages the client receives, the handlers
\* run at most once for each event_id, also once more ids than the limit of
\* processedEventIds were received and the oldest were removed from it.
C39_ClientDispatchesOnce ==
    \A id \in ClientEventIds : wsClient.dispatched[id] <= 1

====
